---- MODULE Spec2Model ----
(***************************************************************************)
(* Gesture bindings of config/src/shortcuts/gesture.rs: the Direction      *)
(* vocabulary, the Gesture value, the display formatter and the parser of  *)
(* the "<fingers>+<direction>" encoding.  A Rust String / &str is a        *)
(* sequence of one-character strings, so that splitting, formatting and    *)
(* integer parsing are computed character by character.                    *)
(***************************************************************************)
EXTENDS Integers, Sequences, FiniteSets, TLC

VARIABLES value, self, string, result, op

vars == <<value, self, string, result, op>>

(***************************************************************************)
(* Bounds of the explored inputs.                                          *)
(***************************************************************************)
MaxFingers == 5
MaxSegs == 4
MaxLen == 3
MaxPrefixLen == 1

(***************************************************************************)
(* i32, the type of Gesture::fingers.                                      *)
(***************************************************************************)
I32_MAX == 2147483647
I32_MIN == (-2147483647) - 1

DigitChars == <<"0","1","2","3","4","5","6","7","8","9">>

IsDigit(c) == \E i \in 1..10 : DigitChars[i] = c

DigitVal(c) == (CHOOSE i \in 1..10 : DigitChars[i] = c) - 1

Ok(v) == [ok |-> TRUE, val |-> v]
Err(e) == [ok |-> FALSE, err |-> e]

None == [tag |-> "None"]
Some(v) == [tag |-> "Some", val |-> v]

(***************************************************************************)
(* i32::from_str: an optional sign, then at least one decimal digit; the   *)
(* value is accumulated with checked multiplication and checked addition   *)
(* (subtraction for a negative number), so a value outside i32 is an       *)
(* error.  The error kind is dropped by the caller, hence Err(<<>>).       *)
(***************************************************************************)
RECURSIVE I32_accumulate(_, _, _)
I32_accumulate(digits, acc, positive) ==
    IF digits = <<>> THEN Ok(acc)
    ELSE LET c == Head(digits) IN
         IF ~IsDigit(c) THEN Err(<<>>)
         ELSE IF positive
              THEN IF acc > I32_MAX \div 10 THEN Err(<<>>)
                   ELSE IF acc * 10 > I32_MAX - DigitVal(c) THEN Err(<<>>)
                   ELSE I32_accumulate(Tail(digits), acc * 10 + DigitVal(c), positive)
              ELSE IF acc < -(I32_MAX \div 10) THEN Err(<<>>)
                   ELSE IF acc * 10 < I32_MIN + DigitVal(c) THEN Err(<<>>)
                   ELSE I32_accumulate(Tail(digits), acc * 10 - DigitVal(c), positive)

I32_from_str_EmptyIsZero(s) ==
    IF s = <<>> THEN Ok(0)
    ELSE IF s = <<"+">> \/ s = <<"-">> THEN Err(<<>>)
    ELSE IF Head(s) = "+" THEN I32_accumulate(Tail(s), 0, TRUE)
    ELSE IF Head(s) = "-" THEN I32_accumulate(Tail(s), 0, FALSE)
    ELSE I32_accumulate(s, 0, TRUE)

I32_from_str_NegateAfter(s) ==
    IF s = <<>> THEN Err(<<>>)
    ELSE IF s = <<"+">> \/ s = <<"-">> THEN Err(<<>>)
    ELSE IF Head(s) = "+" THEN I32_accumulate(Tail(s), 0, TRUE)
    ELSE IF Head(s) = "-"
         THEN LET r == I32_accumulate(Tail(s), 0, TRUE)
              IN IF r.ok THEN Ok(-r.val) ELSE r
    ELSE I32_accumulate(s, 0, TRUE)

I32_from_str(s) ==
    IF s = <<>> THEN Err(<<>>)
    ELSE IF s = <<"+">> \/ s = <<"-">> THEN Err(<<>>)
    ELSE IF Head(s) = "+" THEN I32_accumulate(Tail(s), 0, TRUE)
    ELSE IF Head(s) = "-" THEN I32_accumulate(Tail(s), 0, FALSE)
    ELSE I32_accumulate(s, 0, TRUE)

(***************************************************************************)
(* The "{}" formatting of an i32: a minus sign for a negative number, then *)
(* the decimal digits without leading zeros.  The digits of a negative     *)
(* number are taken from the negative value, as i32::MIN has no positive   *)
(* counterpart.                                                            *)
(***************************************************************************)
RECURSIVE NatDigits(_)
NatDigits(n) ==
    IF n < 10 THEN <<DigitChars[n + 1]>>
    ELSE Append(NatDigits(n \div 10), DigitChars[(n % 10) + 1])

RECURSIVE NegDigits(_)
NegDigits(n) ==
    LET fr == n % 10
        d == IF fr = 0 THEN 0 ELSE 10 - fr
        q == IF fr = 0 THEN n \div 10 ELSE (n \div 10) + 1
    IN IF q = 0 THEN <<DigitChars[d + 1]>>
       ELSE Append(NegDigits(q), DigitChars[d + 1])

I32_to_string(n) ==
    IF n >= 0 THEN NatDigits(n) ELSE <<"-">> \o NegDigits(n)

(***************************************************************************)
(* Direction, AbsoluteDirection, RelativeDirection.                        *)
(***************************************************************************)
AbsoluteDirection == {"AbsoluteUp", "AbsoluteDown", "AbsoluteLeft", "AbsoluteRight"}

RelativeDirection == {"RelativeForward", "RelativeBackward", "RelativeLeft", "RelativeRight"}

Absolute(abs) == [tag |-> "Absolute", inner |-> abs]
Relative(rel) == [tag |-> "Relative", inner |-> rel]

Direction == {Absolute(a) : a \in AbsoluteDirection} \cup {Relative(r) : r \in RelativeDirection}

Direction_to_string_Flat(d) ==
    IF d.tag = "Absolute"
    THEN CASE d.inner = "AbsoluteUp" -> <<"A","b","s","o","l","u","t","e","U","p">>
           [] d.inner = "AbsoluteDown" -> <<"A","b","s","o","l","u","t","e","D","o","w","n">>
           [] d.inner = "AbsoluteLeft" -> <<"A","b","s","o","l","u","t","e","L","e","f","t">>
           [] d.inner = "AbsoluteRight" -> <<"A","b","s","o","l","u","t","e","R","i","g","h","t">>
    ELSE CASE d.inner = "RelativeForward" -> <<"R","e","l","a","t","i","v","e","F","o","r","w","a","r","d">>
           [] d.inner = "RelativeBackward" -> <<"R","e","l","a","t","i","v","e","B","a","c","k","w","a","r","d">>
           [] d.inner = "RelativeLeft" -> <<"A","b","s","o","l","u","t","e","L","e","f","t">>
           [] d.inner = "RelativeRight" -> <<"R","e","l","a","t","i","v","e","R","i","g","h","t">>

Direction_to_string(d) ==
    IF d.tag = "Absolute"
    THEN CASE d.inner = "AbsoluteUp" -> <<"A","b","s","o","l","u","t","e","U","p">>
           [] d.inner = "AbsoluteDown" -> <<"A","b","s","o","l","u","t","e","D","o","w","n">>
           [] d.inner = "AbsoluteLeft" -> <<"A","b","s","o","l","u","t","e","L","e","f","t">>
           [] d.inner = "AbsoluteRight" -> <<"A","b","s","o","l","u","t","e","R","i","g","h","t">>
    ELSE CASE d.inner = "RelativeForward" -> <<"R","e","l","a","t","i","v","e","F","o","r","w","a","r","d">>
           [] d.inner = "RelativeBackward" -> <<"R","e","l","a","t","i","v","e","B","a","c","k","w","a","r","d">>
           [] d.inner = "RelativeLeft" -> <<"R","e","l","a","t","i","v","e","L","e","f","t">>
           [] d.inner = "RelativeRight" -> <<"R","e","l","a","t","i","v","e","R","i","g","h","t">>

InvalidDirectionMsg ==
    <<"I","n","v","a","l","i","d"," ","d","i","r","e","c","t","i","o","n"," ","s","t","r","i","n","g">>

Direction_from_str_AcceptsUp(s) ==
    CASE s = <<"A","b","s","o","l","u","t","e","U","p">> -> Ok(Absolute("AbsoluteUp"))
      [] s = <<"U","p">> -> Ok(Absolute("AbsoluteUp"))
      [] s = <<"A","b","s","o","l","u","t","e","D","o","w","n">> -> Ok(Absolute("AbsoluteDown"))
      [] s = <<"A","b","s","o","l","u","t","e","L","e","f","t">> -> Ok(Absolute("AbsoluteLeft"))
      [] s = <<"A","b","s","o","l","u","t","e","R","i","g","h","t">> -> Ok(Absolute("AbsoluteRight"))
      [] s = <<"R","e","l","a","t","i","v","e","F","o","r","w","a","r","d">> -> Ok(Relative("RelativeForward"))
      [] s = <<"R","e","l","a","t","i","v","e","B","a","c","k","w","a","r","d">> -> Ok(Relative("RelativeBackward"))
      [] s = <<"R","e","l","a","t","i","v","e","L","e","f","t">> -> Ok(Relative("RelativeLeft"))
      [] s = <<"R","e","l","a","t","i","v","e","R","i","g","h","t">> -> Ok(Relative("RelativeRight"))
      [] OTHER -> Err(InvalidDirectionMsg)

Direction_from_str(s) ==
    CASE s = <<"A","b","s","o","l","u","t","e","U","p">> -> Ok(Absolute("AbsoluteUp"))
      [] s = <<"A","b","s","o","l","u","t","e","D","o","w","n">> -> Ok(Absolute("AbsoluteDown"))
      [] s = <<"A","b","s","o","l","u","t","e","L","e","f","t">> -> Ok(Absolute("AbsoluteLeft"))
      [] s = <<"A","b","s","o","l","u","t","e","R","i","g","h","t">> -> Ok(Absolute("AbsoluteRight"))
      [] s = <<"R","e","l","a","t","i","v","e","F","o","r","w","a","r","d">> -> Ok(Relative("RelativeForward"))
      [] s = <<"R","e","l","a","t","i","v","e","B","a","c","k","w","a","r","d">> -> Ok(Relative("RelativeBackward"))
      [] s = <<"R","e","l","a","t","i","v","e","L","e","f","t">> -> Ok(Relative("RelativeLeft"))
      [] s = <<"R","e","l","a","t","i","v","e","R","i","g","h","t">> -> Ok(Relative("RelativeRight"))
      [] OTHER -> Err(InvalidDirectionMsg)

(***************************************************************************)
(* Gesture.                                                                *)
(***************************************************************************)
Gesture_new(fingers, direction) ==
    [fingers |-> fingers, direction |-> direction, description |-> None]

FingerWord == <<" ","F","i","n","g","e","r"," ">>

Gesture_to_string_in_place_Overwrite(g, s) ==
    I32_to_string(g.fingers) \o FingerWord \o Direction_to_string(g.direction)

Gesture_to_string_in_place_Plus(g, s) ==
    s \o I32_to_string(g.fingers) \o <<"+">> \o Direction_to_string(g.direction)

Gesture_to_string_in_place(g, s) ==
    s \o I32_to_string(g.fingers) \o FingerWord \o Direction_to_string(g.direction)

Gesture_to_string(g) == Gesture_to_string_in_place(g, <<>>)

(***************************************************************************)
(* str::split("+"): the segments between the '+' characters; a string      *)
(* without '+' (the empty string included) is a single segment.            *)
(***************************************************************************)
RECURSIVE Split(_)
Split(s) ==
    IF \E i \in 1..Len(s) : s[i] = "+"
    THEN LET i == CHOOSE i \in 1..Len(s) : s[i] = "+" /\ \A j \in 1..(i - 1) : s[j] # "+"
         IN <<SubSeq(s, 1, i - 1)>> \o Split(SubSeq(s, i + 1, Len(s)))
    ELSE <<s>>

MissingFingersMsg ==
    <<"n","o"," ","v","a","l","u","e"," ","f","o","r"," ","t","h","e"," ","n","u","m","b","e","r"," ","o","f"," ","f","i","n","g","e","r","s">>

InvalidFingersMsg ==
    <<"c","o","u","l","d"," ","n","o","t"," ","p","a","r","s","e"," ","n","u","m","b","e","r"," ","o","f"," ","f","i","n","g","e","r","s">>

MissingDirectionMsg ==
    <<"c","o","u","l","d"," ","n","o","t"," ","p","a","r","s","e"," ","d","i","r","e","c","t","i","o","n">>

ExtraDataPrefix == <<"E","x","t","r","a"," ","d","a","t","a"," ">>

ExtraDataSuffix == <<" ","n","o","t"," ","e","x","p","e","c","t","e","d">>

ExtraDataMsg(n3) == ExtraDataPrefix \o n3 \o ExtraDataSuffix

Gesture_from_str_NoTrailingCheck(v) ==
    LET value_iter == Split(v) IN
    IF Len(value_iter) < 1 THEN Err(MissingFingersMsg)
    ELSE LET fingers == I32_from_str(value_iter[1]) IN
    IF ~fingers.ok THEN Err(InvalidFingersMsg)
    ELSE IF Len(value_iter) < 2 THEN Err(MissingDirectionMsg)
    ELSE LET direction == Direction_from_str(value_iter[2]) IN
    IF ~direction.ok THEN Err(direction.err)
    ELSE Ok([fingers |-> fingers.val, direction |-> direction.val, description |-> None])

Gesture_from_str(v) ==
    LET value_iter == Split(v) IN
    IF Len(value_iter) < 1 THEN Err(MissingFingersMsg)
    ELSE LET fingers == I32_from_str(value_iter[1]) IN
    IF ~fingers.ok THEN Err(InvalidFingersMsg)
    ELSE IF Len(value_iter) < 2 THEN Err(MissingDirectionMsg)
    ELSE LET direction == Direction_from_str(value_iter[2]) IN
    IF ~direction.ok THEN Err(direction.err)
    ELSE IF Len(value_iter) >= 3 THEN Err(ExtraDataMsg(value_iter[3]))
    ELSE Ok([fingers |-> fingers.val, direction |-> direction.val, description |-> None])

(***************************************************************************)
(* The explored arguments.  Fingers holds the small counts and the two     *)
(* ends of i32; Inputs holds the strings handed to the parsers: segments   *)
(* joined with '+', and every short string over a small alphabet.          *)
(***************************************************************************)
SeqsUpTo(S, n) == UNION {[1..k -> S] : k \in 0..n}

Fingers == ((-MaxFingers)..MaxFingers) \cup {I32_MIN, I32_MAX}

Descriptions == {None, Some(<<>>), Some(<<"S","w","i","p","e">>)}

Gestures == [fingers : Fingers, direction : Direction, description : Descriptions]

Prefixes == SeqsUpTo({"a", "+"}, MaxPrefixLen)

DirectionNames == {Direction_to_string(d) : d \in Direction}

FirstSegments ==
    {I32_to_string(f) : f \in Fingers} \cup
    { <<>>, <<"-">>, <<"0","0","7">>, <<"3"," ">>, <<"t","h","r","e","e">>,
      <<"2","1","4","7","4","8","3","6","4","8">>,
      <<"-","2","1","4","7","4","8","3","6","4","9">> }

SecondSegments ==
    DirectionNames \cup
    { <<>>, <<"3">>, <<"U","p">>, <<"S","i","d","e","w","a","y","s">>,
      <<"a","b","s","o","l","u","t","e","u","p">>,
      <<" ","A","b","s","o","l","u","t","e","U","p">> }

MoreSegments == { <<>>, <<"M","o","r","e">>, <<"I","n","f","o">> }

RECURSIVE Trailing(_)
Trailing(k) ==
    IF k = 0 THEN { <<>> }
    ELSE {<<"+">> \o m \o r : m \in MoreSegments, r \in Trailing(k - 1)}

Inputs ==
    FirstSegments
    \cup {a \o <<"+">> \o b \o r :
            a \in FirstSegments, b \in SecondSegments,
            r \in UNION {Trailing(k) : k \in 0..(MaxSegs - 2)}}
    \cup SeqsUpTo({"1", "+", "-", "x"}, MaxLen)
    \cup DirectionNames
    \cup SecondSegments

(***************************************************************************)
(* The state: the arguments of the call (value for the parsers, self and   *)
(* string for the methods of Gesture), the value returned, and the         *)
(* operation that has run.                                                 *)
(***************************************************************************)
Init ==
    /\ op = "init"
    /\ result = None
    /\ \/ /\ value \in Inputs
          /\ self = Gesture_new(0, Absolute("AbsoluteUp"))
          /\ string = <<>>
       \/ /\ value = <<>>
          /\ self \in Gestures
          /\ string \in Prefixes

DirectionToString ==
    /\ op = "init"
    /\ op' = "Direction::to_string"
    /\ result' = Direction_to_string(self.direction)
    /\ UNCHANGED <<value, self, string>>

DirectionFromStr ==
    \/ /\ op = "init"
       /\ op' = "Direction::from_str"
       /\ result' = Direction_from_str(value)
       /\ UNCHANGED <<value, self, string>>
    \/ /\ op = "Direction::to_string"
       /\ op' = "Direction::from_str(to_string)"
       /\ value' = result
       /\ result' = Direction_from_str(result)
       /\ UNCHANGED <<self, string>>

GestureNew ==
    /\ op = "init"
    /\ op' = "Gesture::new"
    /\ result' = Gesture_new(self.fingers, self.direction)
    /\ UNCHANGED <<value, self, string>>

GestureToStringInPlace ==
    /\ op = "init"
    /\ op' = "Gesture::to_string_in_place"
    /\ string' = Gesture_to_string_in_place(self, string)
    /\ UNCHANGED <<value, self, result>>

GestureToString ==
    /\ op = "init"
    /\ op' = "Gesture::to_string"
    /\ result' = Gesture_to_string(self)
    /\ UNCHANGED <<value, self, string>>

GestureFromStr ==
    \/ /\ op = "init"
       /\ op' = "Gesture::from_str"
       /\ result' = Gesture_from_str(value)
       /\ UNCHANGED <<value, self, string>>
    \/ /\ op = "Gesture::to_string"
       /\ op' = "Gesture::from_str(to_string)"
       /\ value' = result
       /\ result' = Gesture_from_str(result)
       /\ UNCHANGED <<self, string>>

Next ==
    \/ DirectionToString
    \/ DirectionFromStr
    \/ GestureNew
    \/ GestureToStringInPlace
    \/ GestureToString
    \/ GestureFromStr

Spec == Init /\ [][Next]_vars

(***************************************************************************)
(* Vocabulary of the properties.  The segments of an input are located by  *)
(* the positions of its '+' characters, and the text of an i32 is          *)
(* recognised by its shape and its magnitude, both independently of the    *)
(* parser.  An error is a message; its kind is read off the message.       *)
(***************************************************************************)
PlusCount(s, i) == Cardinality({j \in 1..i : s[j] = "+"})

NumSegments(s) == PlusCount(s, Len(s)) + 1

NthPlus(s, n) == CHOOSE i \in 1..Len(s) : s[i] = "+" /\ PlusCount(s, i) = n

SegmentOf(s, n) ==
    LET lo == IF n = 1 THEN 0 ELSE NthPlus(s, n - 1)
        hi == IF n = NumSegments(s) THEN Len(s) + 1 ELSE NthPlus(s, n)
    IN SubSeq(s, lo + 1, hi - 1)

RemainderAfter(s, n) == SubSeq(s, NthPlus(s, n) + 1, Len(s))

RECURSIVE StripZeros(_)
StripZeros(s) ==
    IF Len(s) > 1 /\ Head(s) = "0" THEN StripZeros(Tail(s)) ELSE s

DigitsLeq(a, b) ==
    \/ a = b
    \/ \E i \in 1..Len(a) :
          /\ DigitVal(a[i]) < DigitVal(b[i])
          /\ \A j \in 1..(i - 1) : a[j] = b[j]

IsI32Text(s) ==
    LET signed == s # <<>> /\ Head(s) \in {"+", "-"}
        body == IF signed THEN Tail(s) ELSE s
        sig == StripZeros(body)
        limit == IF signed /\ Head(s) = "-"
                 THEN <<"2","1","4","7","4","8","3","6","4","8">>
                 ELSE <<"2","1","4","7","4","8","3","6","4","7">>
    IN /\ body # <<>>
       /\ \A i \in 1..Len(body) : IsDigit(body[i])
       /\ \/ Len(sig) < 10
          \/ Len(sig) = 10 /\ DigitsLeq(sig, limit)

IsTrailingData(r) ==
    /\ ~r.ok
    /\ Len(r.err) >= Len(ExtraDataPrefix) + Len(ExtraDataSuffix)
    /\ SubSeq(r.err, 1, Len(ExtraDataPrefix)) = ExtraDataPrefix
    /\ SubSeq(r.err, Len(r.err) - Len(ExtraDataSuffix) + 1, Len(r.err)) = ExtraDataSuffix

TrailingPayload(r) ==
    SubSeq(r.err, Len(ExtraDataPrefix) + 1, Len(r.err) - Len(ExtraDataSuffix))

Contains(text, token) ==
    \E i \in 0..(Len(text) - Len(token)) : SubSeq(text, i + 1, i + Len(token)) = token

Encoding(f, d) == I32_to_string(f) \o <<"+">> \o Direction_to_string(d)

DisplayText(g) == I32_to_string(g.fingers) \o FingerWord \o Direction_to_string(g.direction)

(***************************************************************************)
(* C1: parsing the canonical encoding "<f>+<name of d>" of any finger      *)
(* count f and any of the 8 directions d returns Ok of the gesture         *)
(* Gesture::new(f, d): fingers f, direction d, no description.             *)
(***************************************************************************)
C1_EncodingRoundTrip ==
    op = "Gesture::from_str" =>
        \A f \in Fingers, d \in Direction :
            value = Encoding(f, d) => result = Ok(Gesture_new(f, d))

C1_Witness ==
    /\ op = "Gesture::from_str"
    /\ value = Encoding(I32_MIN, Relative("RelativeLeft"))
    /\ result = Ok(Gesture_new(I32_MIN, Relative("RelativeLeft")))

(***************************************************************************)
(* C2: parsing the name of a direction returns that direction, for each of *)
(* the 8 directions; the 8 names are pairwise distinct.                    *)
(***************************************************************************)
C2_DirectionRoundTrip ==
    /\ op = "Direction::from_str(to_string)" =>
          /\ value = Direction_to_string(self.direction)
          /\ result = Ok(self.direction)
    /\ \A d1, d2 \in Direction :
          Direction_to_string(d1) = Direction_to_string(d2) => d1 = d2

C2_Witness ==
    /\ op = "Direction::from_str(to_string)"
    /\ self.direction = Relative("RelativeLeft")
    /\ result = Ok(Relative("RelativeLeft"))

(***************************************************************************)
(* C3 as stated: every input with more than two '+'-segments fails with    *)
(* the TrailingData error, whatever its first two segments are.            *)
(***************************************************************************)
C3_TrailingWhateverSegments ==
    (op = "Gesture::from_str" /\ NumSegments(value) > 2) => IsTrailingData(result)

(***************************************************************************)
(* C3 as amended: every input with more than two '+'-segments fails, and   *)
(* never yields Ok; the error is TrailingData when the first segment is a  *)
(* valid integer and the second a direction name, and otherwise it is the  *)
(* error of the first invalid segment: InvalidFingerCount for the first,   *)
(* else InvalidDirection for the second.                                   *)
(***************************************************************************)
C3_TrailingRejected ==
    (op = "Gesture::from_str" /\ NumSegments(value) > 2) =>
        /\ ~result.ok
        /\ IF ~IsI32Text(SegmentOf(value, 1))
           THEN result.err = InvalidFingersMsg
           ELSE IF SegmentOf(value, 2) \notin DirectionNames
           THEN result.err = InvalidDirectionMsg
           ELSE IsTrailingData(result)

C3_Witness ==
    /\ op = "Gesture::from_str"
    /\ NumSegments(value) = 4
    /\ SegmentOf(value, 1) = <<"4">>
    /\ SegmentOf(value, 2) = <<"A","b","s","o","l","u","t","e","L","e","f","t">>
    /\ IsTrailingData(result)

(***************************************************************************)
(* C4: a TrailingData error carries the whole remainder of the input after *)
(* the second segment, further '+' characters included.                    *)
(***************************************************************************)
C4_TrailingCarriesRemainder ==
    (op = "Gesture::from_str" /\ NumSegments(value) > 2 /\ IsTrailingData(result)) =>
        TrailingPayload(result) = RemainderAfter(value, 2)

C6_InvalidFingerCount ==
    (op = "Gesture::from_str" /\ ~IsI32Text(SegmentOf(value, 1))) =>
        result = Err(InvalidFingersMsg)

C6_Witness ==
    /\ op = "Gesture::from_str"
    /\ NumSegments(value) = 2
    /\ SegmentOf(value, 1) = <<"2","1","4","7","4","8","3","6","4","8">>
    /\ SegmentOf(value, 2) \in DirectionNames
    /\ result = Err(InvalidFingersMsg)

(***************************************************************************)
(* C7: no gesture returned as Ok by the parser has a negative finger       *)
(* count.                                                                  *)
(***************************************************************************)
C7_FingersNonNegative ==
    (op = "Gesture::from_str" /\ result.ok) => result.val.fingers >= 0

(***************************************************************************)
(* C8: an input without '+' that is a valid integer fails with             *)
(* MissingDirection, and an input without a finger count fails with        *)
(* MissingFingerCount.                                                     *)
(***************************************************************************)
C8_MissingSegmentReported ==
    op = "Gesture::from_str" =>
        /\ (NumSegments(value) = 1 /\ IsI32Text(value)) => result = Err(MissingDirectionMsg)
        /\ value = <<>> => result = Err(MissingFingersMsg)

(***************************************************************************)
(* C9: to_string_in_place keeps the content of the target string as a      *)
(* prefix and appends "<fingers> Finger <direction name>", a text that     *)
(* depends on fingers and direction only; to_string returns that text.     *)
(***************************************************************************)
C9_AppendsDisplayText ==
    [][ /\ op' = "Gesture::to_string_in_place" =>
             /\ SubSeq(string', 1, Len(string)) = string
             /\ SubSeq(string', Len(string) + 1, Len(string')) = DisplayText(self)
             /\ \A g \in Gestures :
                   (g.fingers = self.fingers /\ g.direction = self.direction) =>
                       Gesture_to_string_in_place(g, string) = string'
        /\ op' = "Gesture::to_string" => result' = DisplayText(self)
      ]_vars

C9_Witness ==
    /\ op = "Gesture::to_string_in_place"
    /\ self.fingers = 3
    /\ self.description = Some(<<"S","w","i","p","e">>)
    /\ string = <<"a">> \o DisplayText(self)

(***************************************************************************)
(* C10: the display string of a gesture is rejected by the parser.         *)
(***************************************************************************)
C10_DisplayNotParsed ==
    op = "Gesture::from_str(to_string)" => (value = DisplayText(self) /\ ~result.ok)

C10_Witness ==
    /\ op = "Gesture::from_str(to_string)"
    /\ self.fingers = 3
    /\ self.description # None
    /\ ~result.ok

====
